---------------------------- MODULE Spec2Model ----------------------------
(***************************************************************************)
(* Model of the WEBRCV offline mirror crawler (src/webrcv.js).             *)
(*                                                                         *)
(* Strings are sequences of tokens.  A token is a character ("/", "?") or  *)
(* an indivisible run of characters that no pattern of the program splits  *)
(* ("a", "index.html", ".css", the origin given on the command line).      *)
(***************************************************************************)
EXTENDS Integers, Sequences, FiniteSets, TLC

-----------------------------------------------------------------------------
(* Bounds of the model *)

\* longest URL tail (tokens after the origin) given to cleanURL
MaxTail == 3

\* longest document (tokens) given to rewriteHTML and rewriteCSS, the worked
\* examples apart
MaxDoc == 4

-----------------------------------------------------------------------------
(* Strings *)

\* String.prototype.startsWith
StartsWith(s, pre) ==
    /\ Len(pre) <= Len(s)
    /\ SubSeq(s, 1, Len(pre)) = pre

\* String.prototype.endsWith
EndsWith(s, suf) ==
    /\ Len(suf) <= Len(s)
    /\ SubSeq(s, Len(s) - Len(suf) + 1, Len(s)) = suf

\* positions at which pat occurs in s
Occurrences(s, pat) ==
    { i \in 1..(Len(s) - Len(pat) + 1) : SubSeq(s, i, i + Len(pat) - 1) = pat }

Least(S) == CHOOSE i \in S : \A j \in S : i <= j

\* String.prototype.replace with a string pattern: the first occurrence only
ReplaceFirst(s, pat, rep) ==
    IF Occurrences(s, pat) = {} THEN s
    ELSE LET i == Least(Occurrences(s, pat))
         IN  SubSeq(s, 1, i - 1) \o rep \o SubSeq(s, i + Len(pat), Len(s))

\* .replace(/\?.*$/, ""): everything from the first "?" on is dropped
StripQuery(s) ==
    IF Occurrences(s, <<"?">>) = {} THEN s
    ELSE SubSeq(s, 1, Least(Occurrences(s, <<"?">>)) - 1)

\* .replace(/^\//, ""): one leading separator is dropped
StripLeadingSlash(s) ==
    IF StartsWith(s, <<"/">>) THEN Tail(s) ELSE s

\* String.prototype.replace with a global pattern: the occurrences found by one
\* scan from the left, none overlapping another, each replaced; what a
\* replacement puts in is not scanned again
RECURSIVE ReplaceAll(_, _, _)
ReplaceAll(s, pat, rep) ==
    IF s = <<>> THEN <<>>
    ELSE IF StartsWith(s, pat)
         THEN rep \o ReplaceAll(SubSeq(s, Len(pat) + 1, Len(s)), pat, rep)
         ELSE <<Head(s)>> \o ReplaceAll(Tail(s), pat, rep)

-----------------------------------------------------------------------------
(* Configuration *)

\* const ROOT = args[0]: the target origin, as in "Webrcv https://example.com"
ROOT == <<"https://site.example">>

\* the index document name
IndexDoc == <<"index.html">>

-----------------------------------------------------------------------------
(* URL normalizer *)

\* mutant: the index document is appended whatever the path ends in
cleanURLAlwaysIndex(url) ==
    LET u == StripQuery(ReplaceFirst(url, ROOT, <<>>))
    IN  IF u = <<>> \/ u = <<"/">> THEN IndexDoc
        ELSE StripLeadingSlash(u \o IndexDoc)

\* mutant: every occurrence of the origin is removed, not the first
RECURSIVE RemoveAll(_, _)
RemoveAll(s, pat) ==
    IF Occurrences(s, pat) = {} THEN s ELSE RemoveAll(ReplaceFirst(s, pat, <<>>), pat)

cleanURLGlobal(url) ==
    LET u == StripQuery(RemoveAll(url, ROOT))
    IN  IF u = <<>> \/ u = <<"/">> THEN IndexDoc
        ELSE StripLeadingSlash(IF EndsWith(u, <<"/">>) THEN u \o IndexDoc ELSE u)

\* function cleanURL(url)
cleanURL(url) ==
    LET u == StripQuery(ReplaceFirst(url, ROOT, <<>>))
    IN  IF u = <<>> \/ u = <<"/">> THEN IndexDoc
        ELSE StripLeadingSlash(IF EndsWith(u, <<"/">>) THEN u \o IndexDoc ELSE u)

-----------------------------------------------------------------------------
(* Link rewriters *)

\* the double quote character
Quote == "\""

\* mutant: the src=" references are not rewritten
rewriteHTMLNoSrc(html) ==
    LET noRoot == ReplaceAll(html, ROOT, <<>>)
        noHref == ReplaceAll(noRoot, <<"href=", Quote, "/">>, <<"href=", Quote>>)
    IN  ReplaceAll(noHref, <<"url(", Quote, "/">>, <<"url(", Quote>>)

\* function rewriteHTML(html)
rewriteHTML(html) ==
    LET noRoot == ReplaceAll(html, ROOT, <<>>)
        noHref == ReplaceAll(noRoot, <<"href=", Quote, "/">>, <<"href=", Quote>>)
        noSrc  == ReplaceAll(noHref, <<"src=", Quote, "/">>, <<"src=", Quote>>)
    IN  ReplaceAll(noSrc, <<"url(", Quote, "/">>, <<"url(", Quote>>)

\* function rewriteCSS(css)
rewriteCSS(css) ==
    LET quoted   == ReplaceAll(css, <<"url(", Quote>> \o ROOT, <<"url(", Quote>>)
        unquoted == ReplaceAll(quoted, <<"url(">> \o ROOT, <<"url(">>)
    IN  ReplaceAll(unquoted, ROOT, <<>>)

-----------------------------------------------------------------------------
(* The environment: URLs, sitemap documents and sites *)

U0   == ROOT                                       \* the seed, as typed
U1   == ROOT \o <<"/">>                            \* the root, as a browser writes it
UA   == ROOT \o <<"/", "a">>                       \* /a
UAq  == ROOT \o <<"/", "a", "?", "a">>             \* /a?a
UCss == ROOT \o <<"/", "a", ".css">>               \* /a.css
UFr  == ROOT \o <<"/", "a", "#", "a">>             \* /a#a
UX   == <<"https://other.example", "/", "a">>      \* another origin

Urls == {U0, U1, UA, UAq, UCss, UFr, UX}

NoUrl == <<>>

\* normalized paths of the URLs
Paths == { cleanURL(u) : u \in Urls }

\* A site: for each page URL the anchors of its rendered document, in document
\* order (a.href, absolute), and the URLs of the responses its rendering triggers.
NoLinks == [u \in Urls |-> <<>>]
NoResponses == [u \in Urls |-> {}]

\* the root links to /a and /a links back to the root; no other resources
TwoPageSite ==
    [anchors   |-> [NoLinks EXCEPT ![U0] = <<UA>>, ![U1] = <<UA>>,
                                   ![UA] = <<U1>>, ![UAq] = <<U1>>],
     responses |-> [NoResponses EXCEPT ![U0] = {U1}, ![U1] = {U1},
                                       ![UA] = {UA}, ![UAq] = {UAq}]]

\* the root links to /a under two query variants, to a fragment and off site;
\* /a and /a?a link to each other and back to the seed; no exchange is observed
LinkSite ==
    [anchors   |-> [NoLinks EXCEPT ![U0] = <<UAq, UFr, UX, UA>>,
                                   ![U1] = <<UAq, UFr, UX, UA>>,
                                   ![UA] = <<UAq>>, ![UAq] = <<UA, U0>>],
     responses |-> NoResponses]

\* the root links to /a; the root loads a stylesheet and a third-party resource,
\* /a loads the stylesheet and fetches itself again under a query
AssetSite ==
    [anchors   |-> [NoLinks EXCEPT ![U0] = <<UA>>, ![U1] = <<UA>>],
     responses |-> [NoResponses EXCEPT ![U0] = {U1, UCss, UX}, ![U1] = {U1, UCss, UX},
                                       ![UA] = {UA, UAq, UCss},
                                       ![UAq] = {UA, UAq, UCss}]]

\* sitemap documents, as the list of their <loc> entries
NoSitemap == <<>>
DupSitemap == <<UA, U0, UA>>
OffSiteSitemap == <<UX, UAq>>

\* the crawls explored: a site and the sitemap document its server holds
Scenarios ==
    { [site |-> LinkSite, xml |-> NoSitemap],
      [site |-> LinkSite, xml |-> DupSitemap],
      [site |-> LinkSite, xml |-> OffSiteSitemap],
      [site |-> TwoPageSite, xml |-> NoSitemap],
      [site |-> AssetSite, xml |-> NoSitemap] }

-----------------------------------------------------------------------------
(* State *)

VARIABLES
    mainPc,       \* position of the main async function
    sitemapRes,   \* how loadSitemap ended: "none", "threw", "notok", "ok"
    xml,          \* the <loc> entries of the sitemap document the server holds
    site,         \* the site being crawled
    queued,       \* const queued: a Set, kept in insertion order
    visited,      \* const visited
    saving,       \* const saving: the claimed paths
    pc,           \* position of each worker
    cur,          \* const url of each worker's loop iteration
    inflight,     \* response handlers waiting for res.body(): URL and context
    files,        \* the output tree: path -> what was last written there
    sniffWrites,  \* writeFile calls of the sniffer, per path
    workerWrites, \* writeFile calls of the workers, per path
    fresh,        \* history: page.goto calls per URL that answer no failure
    retryDue,     \* history: URLs whose last failure no page.goto has followed
    failed,       \* history: URLs whose try block threw
    rendered,     \* history: URLs whose try block ran to its end
    earlyExit,    \* history: a worker left the loop while another was rendering
    fn            \* the pure function under study, its input and its results

vars == <<mainPc, sitemapRes, xml, site, queued, visited, saving, pc, cur,
          inflight, files, sniffWrites, workerWrites, fresh, retryDue, failed,
          rendered, earlyExit, fn>>

crawlVars == <<mainPc, sitemapRes, xml, site, queued, visited, saving, pc, cur,
               inflight, files, sniffWrites, workerWrites, fresh, retryDue,
               failed, rendered, earlyExit>>

\* const THREADS: the number of workers started (the program starts 4)
THREADS == 2

Workers == 1..THREADS

\* counters of the history stop counting here
MaxCount == 3

Inc(n) == IF n < MaxCount THEN n + 1 ELSE n

Range(s) == { s[i] : i \in 1..Len(s) }

\* Set.prototype.add on an insertion-ordered Set
SetAdd(q, u) == IF u \in Range(q) THEN q ELSE Append(q, u)

RECURSIVE SetAddAll(_, _)
SetAddAll(q, us) ==
    IF us = <<>> THEN q ELSE SetAddAll(SetAdd(q, Head(us)), Tail(us))

NoFile == "none"

NoFn == [op |-> "none", arg |-> <<>>, once |-> <<>>, twice |-> <<>>]

InitCrawl ==
    /\ mainPc = "sitemap"
    /\ sitemapRes = "none"
    /\ queued = <<ROOT>>
    /\ visited = {}
    /\ saving = {}
    /\ pc = [w \in Workers |-> "idle"]
    /\ cur = [w \in Workers |-> NoUrl]
    /\ inflight = {}
    /\ files = [p \in Paths |-> NoFile]
    /\ sniffWrites = [p \in Paths |-> 0]
    /\ workerWrites = [p \in Paths |-> 0]
    /\ fresh = [u \in Urls |-> 0]
    /\ retryDue = {}
    /\ failed = {}
    /\ rendered = {}
    /\ earlyExit = FALSE

Init ==
    /\ InitCrawl
    /\ \E sc \in Scenarios : site = sc.site /\ xml = sc.xml
    /\ fn = NoFn


-----------------------------------------------------------------------------
(* Sitemap seeder and orchestrator *)

\* ctx.request.get(`${ROOT}/sitemap.xml`) settles: it throws, or the response
\* is not ok, or it is ok and res.text() is awaited
SitemapGet ==
    /\ mainPc = "sitemap"
    /\ \/ mainPc' = "launch" /\ sitemapRes' = "threw"
       \/ mainPc' = "launch" /\ sitemapRes' = "notok"
       \/ mainPc' = "text" /\ sitemapRes' = sitemapRes
    /\ UNCHANGED <<xml, site, queued, visited, saving, pc, cur, inflight, files,
                   sniffWrites, workerWrites, fresh, retryDue, failed, rendered, earlyExit, fn>>

\* mutant: the <loc> entries replace queued instead of joining it
loadSitemapReplace(q, urls) == SetAddAll(<<>>, urls)

\* urls.forEach((u) => queued.add(u))
loadSitemapAdd(q, urls) == SetAddAll(q, urls)

\* res.text() settles: it throws, or every <loc> entry is added to queued
SitemapText ==
    /\ mainPc = "text"
    /\ \/ sitemapRes' = "threw" /\ queued' = queued
       \/ sitemapRes' = "ok" /\ queued' = loadSitemapAdd(queued, xml)
    /\ mainPc' = "launch"
    /\ UNCHANGED <<xml, site, visited, saving, pc, cur, inflight, files,
                   sniffWrites, workerWrites, fresh, retryDue, failed, rendered, earlyExit, fn>>

\* for (let i = 0; i < THREADS; i++) workers.push(worker(browser)): every worker
\* runs to its first await, browser.newContext()
Launch ==
    /\ mainPc = "launch"
    /\ mainPc' = "wait"
    /\ pc' = [w \in Workers |-> "newContext"]
    /\ UNCHANGED <<sitemapRes, xml, site, queued, visited, saving, cur, inflight,
                   files, sniffWrites, workerWrites, fresh, retryDue, failed,
                   rendered, earlyExit, fn>>

\* mutant: the first worker to finish ends the wait (Promise.race)
AllSettledRace ==
    /\ mainPc = "wait"
    /\ \E w \in Workers : pc[w] = "done"
    /\ mainPc' = "closeBrowser"
    /\ UNCHANGED <<sitemapRes, xml, site, queued, visited, saving, pc, cur,
                   inflight, files, sniffWrites, workerWrites, fresh, retryDue,
                   failed, rendered, earlyExit, fn>>

\* await Promise.all(workers) resolves; browser.close() is awaited
AllSettled ==
    /\ mainPc = "wait"
    /\ \A w \in Workers : pc[w] = "done"
    /\ mainPc' = "closeBrowser"
    /\ UNCHANGED <<sitemapRes, xml, site, queued, visited, saving, pc, cur,
                   inflight, files, sniffWrites, workerWrites, fresh, retryDue,
                   failed, rendered, earlyExit, fn>>

\* browser.close() resolves and DONE is logged
ReportDone ==
    /\ mainPc = "closeBrowser"
    /\ mainPc' = "done"
    /\ UNCHANGED <<sitemapRes, xml, site, queued, visited, saving, pc, cur,
                   inflight, files, sniffWrites, workerWrites, fresh, retryDue,
                   failed, rendered, earlyExit, fn>>

-----------------------------------------------------------------------------
(* Crawl worker *)

\* positions at which a worker waits inside its try block: for context.newPage();
\* for page.goto, fullScroll and page.content in turn ("render": nothing runs
\* between them but the next call); for extractLinks; for page.close
TryPcs == {"newPage", "render", "extract", "close"}

\* positions at which the worker's page exists and loads
Rendering == {"render", "extract", "close"}

\* if (visited.has(url)) continue
AlreadyVisited(v, u) == u \in v

\* mutant: the URL is not recorded as visited
MarkVisitedForgotten(v, u) == v

\* visited.add(url)
MarkVisited(v, u) == v \cup {u}

\* mutant: a visited URL ends the loop (break for continue)
RECURSIVE PopNextBreak(_, _)
PopNextBreak(q, v) ==
    IF q = <<>> THEN [q |-> <<>>, url |-> NoUrl]
    ELSE IF AlreadyVisited(v, Head(q)) THEN [q |-> Tail(q), url |-> NoUrl]
    ELSE [q |-> Tail(q), url |-> Head(q)]

\* The head of the while loop, run without suspension: pop the first URL of
\* queued until one is not visited or queued is empty.
RECURSIVE PopNext(_, _)
PopNext(q, v) ==
    IF q = <<>> THEN [q |-> <<>>, url |-> NoUrl]
    ELSE IF AlreadyVisited(v, Head(q)) THEN PopNext(Tail(q), v)
    ELSE [q |-> Tail(q), url |-> Head(q)]

\* while (queued.size > 0) { ... }, entered with q as queued; on leaving the
\* loop context.close() is awaited, otherwise context.newPage()
LoopHead(w, q) ==
    LET nxt == PopNext(q, visited)
    IN  /\ queued' = nxt.q
        /\ IF nxt.url = NoUrl
           THEN /\ pc' = [pc EXCEPT ![w] = "closeContext"]
                /\ cur' = [cur EXCEPT ![w] = NoUrl]
                /\ visited' = visited
                /\ earlyExit' =
                       (earlyExit \/ \E o \in Workers \ {w} : pc[o] \in TryPcs)
           ELSE /\ pc' = [pc EXCEPT ![w] = "newPage"]
                /\ cur' = [cur EXCEPT ![w] = nxt.url]
                /\ visited' = MarkVisited(visited, nxt.url)
                /\ earlyExit' = earlyExit

\* mutant: the body runs once (if for while); the worker leaves after its first URL
IterateOnce(w, q) ==
    /\ queued' = q
    /\ pc' = [pc EXCEPT ![w] = "closeContext"]
    /\ cur' = [cur EXCEPT ![w] = NoUrl]
    /\ visited' = visited
    /\ earlyExit' = (earlyExit \/ \E o \in Workers \ {w} : pc[o] \in TryPcs)

\* the end of the loop body, reached from the try block or from the catch block
\* with q as queued: control returns to the loop head
Iterate(w, q) == LoopHead(w, q)

\* browser.newContext() resolves, the sniffer is attached, the loop is entered
NewContextDone(w) ==
    /\ pc[w] = "newContext"
    /\ LoopHead(w, queued)
    /\ UNCHANGED <<mainPc, sitemapRes, xml, site, saving, inflight, files,
                   sniffWrites, workerWrites, fresh, retryDue, failed, rendered, fn>>

\* context.newPage() resolves and page.goto(url) is called
NewPageDone(w) ==
    /\ pc[w] = "newPage"
    /\ pc' = [pc EXCEPT ![w] = "render"]
    /\ fresh' = IF cur[w] \in retryDue THEN fresh
                ELSE [fresh EXCEPT ![cur[w]] = Inc(@)]
    /\ retryDue' = retryDue \ {cur[w]}
    /\ UNCHANGED <<mainPc, sitemapRes, xml, site, queued, visited, saving, cur,
                   inflight, files, sniffWrites, workerWrites, failed, rendered, earlyExit, fn>>

\* location.origin of the page at url
Origin(url) == <<Head(url)>>

\* .filter((x) => x.startsWith(location.origin) && !x.includes("#"))
extractLinks(anchors, url) ==
    SelectSeq(anchors, LAMBDA x : StartsWith(x, Origin(url)) /\ "#" \notin Range(x))

\* mutant: every link is enqueued, visited or not
EnqueueLinksUnchecked(q, links, v) == SetAddAll(q, links)

\* for (const link of links) if (!visited.has(link)) queued.add(link)
RECURSIVE EnqueueLinks(_, _, _)
EnqueueLinks(q, links, v) ==
    IF links = <<>> THEN q
    ELSE EnqueueLinks(IF Head(links) \in v THEN q ELSE SetAdd(q, Head(links)),
                      Tail(links), v)

\* mutant: the document is stored at the path of ROOT, not of url
StoreDocumentAtRoot(w) ==
    /\ pc[w] = "render"
    /\ files' = [files EXCEPT ![cleanURL(ROOT)] = "html"]
    /\ workerWrites' = [workerWrites EXCEPT ![cleanURL(ROOT)] = Inc(@)]
    /\ pc' = [pc EXCEPT ![w] = "extract"]
    /\ UNCHANGED <<mainPc, sitemapRes, xml, site, queued, visited, saving, cur,
                   inflight, sniffWrites, fresh, retryDue, failed, rendered,
                   earlyExit, fn>>

\* mutant: the links are extracted and enqueued before the document is stored
StoreDocumentLinksFirst(w) ==
    /\ pc[w] = "render"
    /\ queued' = EnqueueLinks(queued, extractLinks(site.anchors[cur[w]], cur[w]), visited)
    /\ files' = [files EXCEPT ![cleanURL(cur[w])] = "html"]
    /\ workerWrites' = [workerWrites EXCEPT ![cleanURL(cur[w])] = Inc(@)]
    /\ pc' = [pc EXCEPT ![w] = "extract"]
    /\ UNCHANGED <<mainPc, sitemapRes, xml, site, visited, saving, cur,
                   inflight, sniffWrites, fresh, retryDue, failed, rendered,
                   earlyExit, fn>>

\* page.goto, fullScroll and page.content() have resolved in turn: the rewritten
\* markup is written at cleanURL(url) and extractLinks(page) is called
StoreDocument(w) ==
    /\ pc[w] = "render"
    /\ files' = [files EXCEPT ![cleanURL(cur[w])] = "html"]
    /\ workerWrites' = [workerWrites EXCEPT ![cleanURL(cur[w])] = Inc(@)]
    /\ pc' = [pc EXCEPT ![w] = "extract"]
    /\ UNCHANGED <<mainPc, sitemapRes, xml, site, queued, visited, saving, cur,
                   inflight, sniffWrites, fresh, retryDue, failed, rendered, earlyExit, fn>>

\* extractLinks resolves: the links are enqueued and page.close() is called
EnqueueStep(w) ==
    /\ pc[w] = "extract"
    /\ queued' = EnqueueLinks(queued, extractLinks(site.anchors[cur[w]], cur[w]), visited)
    /\ pc' = [pc EXCEPT ![w] = "close"]
    /\ UNCHANGED <<mainPc, sitemapRes, xml, site, visited, saving, cur, inflight,
                   files, sniffWrites, workerWrites, fresh, retryDue, failed,
                   rendered, earlyExit, fn>>

\* page.close() resolves: the iteration ends and the loop head runs
CloseDone(w) ==
    /\ pc[w] = "close"
    /\ rendered' = rendered \cup {cur[w]}
    /\ Iterate(w, queued)
    /\ UNCHANGED <<mainPc, sitemapRes, xml, site, saving, inflight, files,
                   sniffWrites, workerWrites, fresh, retryDue, failed, fn>>

\* mutant: the catch block logs and does not put the URL back
RequeueDropped(q, u) == q

\* catch (err) { queued.add(url) }
Requeue(q, u) == SetAdd(q, u)

\* An awaited call of the try block rejects (or writeFile throws, which leaves
\* the same state as page.content() rejecting): the catch block runs and the
\* loop head follows without suspension.
Fail(w) ==
    /\ pc[w] \in TryPcs
    /\ failed' = failed \cup {cur[w]}
    /\ retryDue' = retryDue \cup {cur[w]}
    /\ Iterate(w, Requeue(queued, cur[w]))
    /\ UNCHANGED <<mainPc, sitemapRes, xml, site, saving, inflight, files,
                   sniffWrites, workerWrites, fresh, rendered, fn>>

\* context.close() resolves and the worker's promise is fulfilled
ContextClosed(w) ==
    /\ pc[w] = "closeContext"
    /\ pc' = [pc EXCEPT ![w] = "done"]
    /\ UNCHANGED <<mainPc, sitemapRes, xml, site, queued, visited, saving, cur,
                   inflight, files, sniffWrites, workerWrites, fresh, retryDue,
                   failed, rendered, earlyExit, fn>>

-----------------------------------------------------------------------------
(* Sniffer *)

\* mutant: every exchange is taken to be in scope
InScopeAlways(url) == TRUE

\* if (!url.startsWith(ROOT)) return
InScope(url) == StartsWith(url, ROOT)

\* mutant: the claimed paths are not consulted
ClaimedNever(s, p) == FALSE

\* the response handlers there can be: an exchange observed in a worker's context
Handlers == [url : Urls, w : Workers]

\* if (saving.has(cleaned)) return
Claimed(s, p) == p \in s

\* mutant: the path is claimed after the body has arrived, not before
ClaimDeferred(s, p) == s

\* saving.add(cleaned)
Claim(s, p) == s \cup {p}

\* context.on("response", ...) up to await res.body(), run without suspension
Response(w, url) ==
    /\ pc[w] \in Rendering
    /\ url \in site.responses[cur[w]]
    /\ IF ~InScope(url)
       THEN UNCHANGED <<saving, inflight>>
       ELSE IF Claimed(saving, cleanURL(url))
       THEN UNCHANGED <<saving, inflight>>
       ELSE /\ saving' = Claim(saving, cleanURL(url))
            /\ inflight' = inflight \cup {[url |-> url, w |-> w]}
    /\ UNCHANGED <<mainPc, sitemapRes, xml, site, queued, visited, pc, cur, files,
                   sniffWrites, workerWrites, fresh, retryDue, failed, rendered, earlyExit, fn>>

\* res.body() of handler h resolves, which takes the handler's browsing context
\* (once context.close() has resolved the body cannot be had): a stylesheet is
\* rewritten and written as text, anything else is written as received
BodyDone(h) ==
    /\ h \in inflight
    /\ pc[h.w] # "done"
    /\ inflight' = inflight \ {h}
    /\ files' = [files EXCEPT ![cleanURL(h.url)] =
                    IF EndsWith(cleanURL(h.url), <<".css">>) THEN "css" ELSE "raw"]
    /\ sniffWrites' = [sniffWrites EXCEPT ![cleanURL(h.url)] = Inc(@)]
    /\ UNCHANGED <<mainPc, sitemapRes, xml, site, queued, visited, saving, pc, cur,
                   workerWrites, fresh, retryDue, failed, rendered, earlyExit, fn>>

\* mutant: no catch block; the rejection is unhandled and ends the process
BodyFailCrash(h) ==
    /\ h \in inflight
    /\ inflight' = {}
    /\ pc' = [w \in Workers |-> "done"]
    /\ UNCHANGED <<mainPc, sitemapRes, xml, site, queued, visited, saving, cur,
                   files, sniffWrites, workerWrites, fresh, retryDue, failed,
                   rendered, earlyExit, fn>>

\* mutant: the catch block gives the path back (saving.delete(cleaned))
BodyFailReleases(h) ==
    /\ h \in inflight
    /\ inflight' = inflight \ {h}
    /\ saving' = saving \ {cleanURL(h.url)}
    /\ UNCHANGED <<mainPc, sitemapRes, xml, site, queued, visited, pc, cur,
                   files, sniffWrites, workerWrites, fresh, retryDue, failed,
                   rendered, earlyExit, fn>>

\* res.body() rejects or writeFile throws: the error is logged and dropped
BodyFail(h) ==
    /\ h \in inflight
    /\ inflight' = inflight \ {h}
    /\ UNCHANGED <<mainPc, sitemapRes, xml, site, queued, visited, saving, pc, cur,
                   files, sniffWrites, workerWrites, fresh, retryDue, failed,
                   rendered, earlyExit, fn>>

-----------------------------------------------------------------------------
(* The crawl *)

MainStep == SitemapGet \/ SitemapText \/ Launch \/ AllSettled \/ ReportDone

WorkerStep(w) ==
    \/ NewContextDone(w)
    \/ NewPageDone(w)
    \/ StoreDocument(w)
    \/ EnqueueStep(w)
    \/ CloseDone(w)
    \/ Fail(w)
    \/ ContextClosed(w)

SnifferStep ==
    \/ \E w \in Workers, url \in Urls : Response(w, url)
    \/ \E h \in Handlers : BodyDone(h) \/ BodyFail(h)

Next == MainStep \/ (\E w \in Workers : WorkerStep(w)) \/ SnifferStep

Spec == Init /\ [][Next]_vars


\* The frontier under fair scheduling: whenever an awaited call of a worker or
\* of the main function can settle, one eventually does (the event loop does
\* not stop while a continuation is runnable).  This is weaker than fairness
\* to each worker, so what holds here holds under that too.  The sniffer's
\* steps are left out: Response, BodyDone and BodyFail read and write none of
\* mainPc, queued, visited, pc, cur and workerWrites, so they stutter on
\* everything the frontier's progress reads.
NextCrawl == MainStep \/ (\E w \in Workers : WorkerStep(w))

FairSpec ==
    /\ Init
    /\ [][NextCrawl]_vars
    /\ WF_vars(NextCrawl)

-----------------------------------------------------------------------------
(* Seeding alone, over every sitemap document of up to MaxLocs entries *)

MaxLocs == 3

SitemapUrls == {U0, UA, UAq, UX}

RECURSIVE SeqsUpTo(_, _)
SeqsUpTo(S, n) ==
    IF n = 0 THEN {<<>>}
    ELSE LET shorter == SeqsUpTo(S, n - 1)
         IN  shorter \cup { Append(s, x) : s \in shorter, x \in S }

InitSeed ==
    /\ InitCrawl
    /\ xml \in SeqsUpTo(SitemapUrls, MaxLocs)
    /\ site = TwoPageSite
    /\ fn = NoFn

NextSeed == SitemapGet \/ SitemapText \/ Launch

SpecSeed == InitSeed /\ [][NextSeed]_vars

-----------------------------------------------------------------------------
(* The URL normalizer alone, over every in-scope URL of up to MaxTail tokens *)

CleanChars == {"/", "a", "?", "index.html", "https://site.example"}

CleanInputs == { ROOT \o t : t \in SeqsUpTo(CleanChars, MaxTail) }

InitClean ==
    /\ InitCrawl
    /\ xml = NoSitemap
    /\ site = TwoPageSite
    /\ \E u \in CleanInputs :
          fn = [op |-> "input", arg |-> u, once |-> <<>>, twice |-> <<>>]

\* cleanURL(url)
CleanOnce ==
    /\ fn.op = "input"
    /\ fn' = [fn EXCEPT !.op = "once", !.once = cleanURL(fn.arg)]
    /\ UNCHANGED crawlVars

\* cleanURL(cleanURL(url))
CleanTwice ==
    /\ fn.op = "once"
    /\ fn' = [fn EXCEPT !.op = "twice", !.twice = cleanURL(fn.once)]
    /\ UNCHANGED crawlVars

NextClean == CleanOnce \/ CleanTwice

SpecClean == InitClean /\ [][NextClean]_vars

-----------------------------------------------------------------------------
(* The link rewriters alone, over every document of up to MaxDoc tokens and *)
(* over the worked examples                                                 *)

MarkupChars == {"href=", "src=", "url(", Quote, "/", "a", "https://site.example"}

\* <a href="https://site.example/about/"> and what it is to become
AnchorAbout ==
    <<"<a ", "href=", Quote>> \o ROOT \o <<"/", "about", "/", Quote, ">">>
AnchorAboutRelative ==
    <<"<a ", "href=", Quote, "about", "/", Quote, ">">>

\* <a href="https://site.example//about/">
AnchorTwoSeparators ==
    <<"<a ", "href=", Quote>> \o ROOT \o <<"/", "/", "about", "/", Quote, ">">>

\* background:url("https://site.example/img/a.png") and what it is to become
CssQuoted ==
    <<"background:", "url(", Quote>> \o ROOT \o <<"/", "img/a.png", Quote, ")">>
CssQuotedRelative ==
    <<"background:", "url(", Quote, "img/a.png", Quote, ")">>

\* background:url(https://site.example/img/a.png) and what it is to become
CssUnquoted ==
    <<"background:", "url(">> \o ROOT \o <<"/", "img/a.png", ")">>
CssUnquotedRelative ==
    <<"background:", "url(", "img/a.png", ")">>

RewriteInputs ==
    SeqsUpTo(MarkupChars, MaxDoc)
        \cup {AnchorAbout, AnchorTwoSeparators, CssQuoted, CssUnquoted}

InitRewrite ==
    /\ InitCrawl
    /\ xml = NoSitemap
    /\ site = TwoPageSite
    /\ \E d \in RewriteInputs :
          fn = [op |-> "input", arg |-> d, once |-> <<>>, twice |-> <<>>]

\* html = rewriteHTML(html)
RewriteMarkup ==
    /\ fn.op = "input"
    /\ fn' = [fn EXCEPT !.op = "html", !.once = rewriteHTML(fn.arg)]
    /\ UNCHANGED crawlVars

\* css = rewriteCSS(css)
RewriteStylesheet ==
    /\ fn.op = "input"
    /\ fn' = [fn EXCEPT !.op = "css", !.once = rewriteCSS(fn.arg)]
    /\ UNCHANGED crawlVars

NextRewrite == RewriteMarkup \/ RewriteStylesheet

SpecRewrite == InitRewrite /\ [][NextRewrite]_vars

-----------------------------------------------------------------------------
(* Properties *)

InFlight(w) == pc[w] \in TryPcs

\* C1: for every URL the number of page.goto calls that are not retries of a
\* failure is at most one, and no two workers are in their try block on the
\* same URL, whatever the interleaving of the workers.
NoDuplicateFetch ==
    /\ \A u \in Urls : fresh[u] <= 1
    /\ \A w1, w2 \in Workers :
          (w1 # w2 /\ InFlight(w1) /\ InFlight(w2)) => cur[w1] # cur[w2]

\* two workers are in flight at once, and a URL that was fetched once, failed
\* and was put back has been popped again without a second fetch
RequeuedNotRefetched ==
    /\ \E w1, w2 \in Workers : w1 # w2 /\ InFlight(w1) /\ InFlight(w2)
    /\ \E u \in failed : fresh[u] = 1 /\ u \notin Range(queued)
                         /\ \A w \in Workers : cur[w] # u

\* C2, as amended: the sniffer writes each normalized path at most once in a
\* run; an exchange for a path that is already claimed writes nothing.
SnifferWritesPathOnce ==
    \A p \in Paths : sniffWrites[p] <= 1

\* C2, as claimed: each normalized path is written at most once in a run,
\* whoever the writer is, sniffer or crawl worker.
EveryPathWrittenOnce ==
    \A p \in Paths : sniffWrites[p] + workerWrites[p] <= 1

\* the sniffer has written a path, and a page being rendered triggers an
\* exchange for another URL that normalizes to the same, claimed, path
DuplicateExchangeSuppressed ==
    \E w \in Workers, u1, u2 \in Urls :
        /\ pc[w] \in Rendering
        /\ {u1, u2} \subseteq site.responses[cur[w]]
        /\ u1 # u2
        /\ cleanURL(u1) = cleanURL(u2)
        /\ Claimed(saving, cleanURL(u1))
        /\ sniffWrites[cleanURL(u1)] = 1
        /\ inflight = {}

\* C3: when the run completes, every URL whose page.goto was started and whose
\* render then failed has had another page.goto since that failure.
FailureIsRetried ==
    mainPc = "done" => \A u \in retryDue : fresh[u] = 0

\* C5: completion is signalled only when queued is empty and no worker is in
\* flight on a URL, also after a worker left the loop on an empty queued while
\* another was rendering.
CompletionOnlyWhenDrained ==
    mainPc \in {"closeBrowser", "done"} =>
        /\ queued = <<>>
        /\ \A w \in Workers : ~InFlight(w) /\ cur[w] = NoUrl

\* the run completed although a worker had left the loop while another was
\* still rendering, and the links found afterwards were crawled
CompletedAfterEarlyExit ==
    /\ mainPc = "done"
    /\ earlyExit
    /\ Cardinality(rendered) >= 2

\* C7: once the render of a URL has been attempted and has failed, and for as
\* long as no render of it has succeeded, the run does not complete.
PersistentFailureBlocksCompletion ==
    (\E u \in failed : fresh[u] >= 1 /\ u \notin rendered) => mainPc # "done"


\* paths at which a worker has stored a page document
StoredDocuments == { p \in Paths : workerWrites[p] >= 1 }

\* C4: the crawl of the two-page site (the root links to /a, /a links back to
\* the root), with no render failing, ends with every worker settled and
\* completion reported, and then holds exactly two page documents.
TwoPageCrawlTerminates ==
    (site = TwoPageSite) =>
        /\ <>(mainPc = "done" \/ failed # {})
        /\ [](mainPc = "done" /\ failed = {} => Cardinality(StoredDocuments) = 2)

\* the two-page crawl completed without a failure: the seed, /a and the root
\* under its browser spelling were rendered and two documents are stored
TwoPageCrawlDone ==
    /\ site = TwoPageSite
    /\ mainPc = "done"
    /\ failed = {}
    /\ rendered = {U0, U1, UA}
    /\ Cardinality(StoredDocuments) = 2

\* C6: under fair scheduling, every URL in queued is eventually out of queued
\* and in visited.
EveryQueuedUrlIsPopped ==
    \A u \in Urls : (u \in Range(queued)) ~> (u \notin Range(queued) /\ u \in visited)

\* every worker but one has left the loop on an empty queued, and the last one
\* has popped the URLs enqueued since and is rendering alone
LastWorkerDrainsAlone ==
    \E w \in Workers :
        /\ InFlight(w)
        /\ \A o \in Workers \ {w} : pc[o] = "done"
        /\ earlyExit
        /\ queued = <<>>
        /\ Cardinality(visited) >= 3

\* C8: once the workers are started and before any of them pops, queued holds
\* the initial URL and, when the sitemap was read, its <loc> entries, each once;
\* it holds the initial URL alone when the response was not ok or the fetch
\* threw; the workers are started in every case.
SeededBeforeCrawl ==
    (mainPc = "wait" /\ \A w \in Workers : pc[w] = "newContext") =>
        /\ Range(queued) = (IF sitemapRes = "ok" THEN {ROOT} \cup Range(xml) ELSE {ROOT})
        /\ Len(queued) = Cardinality(Range(queued))
        /\ sitemapRes \in {"ok", "notok", "threw"}

\* a sitemap of three distinct entries, none of them the initial URL, was read:
\* queued holds four URLs and the workers are started
ThreeEntriesSeeded ==
    /\ mainPc = "wait"
    /\ \A w \in Workers : pc[w] = "newContext"
    /\ sitemapRes = "ok"
    /\ Len(xml) = 3
    /\ Cardinality(Range(xml) \ {ROOT}) = 3
    /\ Len(queued) = 4

\* the URL given to cleanURL has no query string and does not end in "/"
PlainUrl(u) == "?" \notin Range(u) /\ ~EndsWith(u, <<"/">>)

\* u without the origin prefix and without one leading separator
WithoutOrigin(u) == StripLeadingSlash(SubSeq(u, Len(ROOT) + 1, Len(u)))

\* C9, as claimed: for every in-scope URL with no query string that does not
\* end in "/", cleanURL removes the origin prefix and the leading separator and
\* nothing else, and applied to its own result returns it unchanged.
CleanPathIdempotent ==
    (fn.op = "twice" /\ PlainUrl(fn.arg)) =>
        /\ fn.once = WithoutOrigin(fn.arg)
        /\ fn.twice = fn.once

\* C9, as amended: for every in-scope URL other than the origin itself, with no
\* query string and not ending in "/", cleanURL removes the origin prefix and
\* one leading separator and nothing else; applied to its own result it
\* returns it unchanged exactly when that result neither begins with a
\* separator nor contains the origin.
CleanPathIdempotentOnPlainPaths ==
    (fn.op = "twice" /\ PlainUrl(fn.arg) /\ fn.arg # ROOT) =>
        /\ fn.once = WithoutOrigin(fn.arg)
        /\ (fn.twice = fn.once) <=>
              (~StartsWith(fn.once, <<"/">>) /\ Occurrences(fn.once, ROOT) = {})

\* cleanURL was applied twice to <origin>/aa, giving aa both times
PlainPathCleanedTwice ==
    /\ fn.op = "twice"
    /\ fn.arg = ROOT \o <<"/", "a", "a">>
    /\ fn.once = <<"a", "a">>
    /\ fn.twice = <<"a", "a">>

\* p ends in the index document name, preceded by a separator or by nothing
EndsInOneIndex(p) ==
    /\ EndsWith(p, IndexDoc)
    /\ Len(p) > 1 => p[Len(p) - 1] = "/"

\* the path of u, after the origin and the query are removed, is empty, "/" or
\* ends in "/"
DirectoryUrl(u) ==
    LET path == StripQuery(SubSeq(u, Len(ROOT) + 1, Len(u)))
    IN  path = <<>> \/ EndsWith(path, <<"/">>)

\* C10: for every in-scope URL whose path is empty, "/" or ends in "/", the
\* result of cleanURL ends in the index document name appended once, and so
\* does the result of applying cleanURL to that result.
IndexAppendedOnce ==
    (fn.op = "twice" /\ DirectoryUrl(fn.arg)) =>
        /\ EndsInOneIndex(fn.once)
        /\ EndsInOneIndex(fn.twice)

\* cleanURL was applied twice to <origin>/a/, giving a/index.html both times
DirectoryCleanedTwice ==
    /\ fn.op = "twice"
    /\ fn.arg = ROOT \o <<"/", "a", "/">>
    /\ fn.once = <<"a", "/", "index.html">>
    /\ fn.twice = fn.once

\* C11: for every URL prefixed by the target origin, the path cleanURL returns
\* does not begin with the separator "/".
CleanPathHasNoLeadingSeparator ==
    (fn.op \in {"once", "twice"} /\ StartsWith(fn.arg, ROOT)) =>
        ~StartsWith(fn.once, <<"/">>)

\* C12: rewriteCSS removes the target origin from url(...) references and
\* leaves no separator in its place, the quoting kept: url("<origin>/img/a.png")
\* becomes url("img/a.png") and url(<origin>/img/a.png) becomes url(img/a.png).
StylesheetReferenceMadeRelative ==
    (fn.op = "css") =>
        /\ Occurrences(fn.once, ROOT) = {}
        /\ fn.arg = CssQuoted => fn.once = CssQuotedRelative
        /\ fn.arg = CssUnquoted => fn.once = CssUnquotedRelative

\* a reference href=", src=" or url(" followed by a separator occurs in d
LeadingSeparatorIn(d) ==
    \E a \in {"href=", "src=", "url("} : Occurrences(d, <<a, Quote, "/">>) # {}

\* C13, as claimed: what rewriteHTML returns holds no occurrence of the target
\* origin and no href=", src=" or url(" reference that begins with a separator;
\* <a href="<origin>/about/"> becomes <a href="about/">.
MarkupReferenceMadeRelative ==
    (fn.op = "html") =>
        /\ Occurrences(fn.once, ROOT) = {}
        /\ ~LeadingSeparatorIn(fn.once)
        /\ fn.arg = AnchorAbout => fn.once = AnchorAboutRelative

\* d with the occurrences of the origin left out
OriginLeftOut(d) == SelectSeq(d, LAMBDA t : <<t>> # ROOT)

\* a reference href=", src=" or url(" of d begins, the origin apart, with two
\* separators
TwoSeparatorsIn(d) ==
    \E a \in {"href=", "src=", "url("} :
        Occurrences(OriginLeftOut(d), <<a, Quote, "/", "/">>) # {}

\* C13, as amended: rewriteHTML removes every occurrence of the target origin
\* and one separator after each href=", src=" and url("; a reference is left
\* beginning with a separator only where two separators followed the quote or
\* the origin; <a href="<origin>/about/"> becomes <a href="about/">.
MarkupSingleSeparatorRemoved ==
    (fn.op = "html") =>
        /\ Occurrences(fn.once, ROOT) = {}
        /\ LeadingSeparatorIn(fn.once) <=> TwoSeparatorsIn(fn.arg)
        /\ fn.arg = AnchorAbout => fn.once = AnchorAboutRelative

\* rewriteHTML was applied to <a href="<origin>/about/"> and gave
\* <a href="about/">
AnchorAboutRewritten ==
    /\ fn.op = "html"
    /\ fn.arg = AnchorAbout
    /\ fn.once = AnchorAboutRelative
    /\ ~LeadingSeparatorIn(fn.once)

\* response handlers that passed the claimed-paths check for path p and are
\* waiting for the body or have written
HandlersPassed(p) ==
    sniffWrites[p] + Cardinality({ h \in inflight : cleanURL(h.url) = p })

\* C14: whatever the interleaving of the response handlers of all contexts, at
\* most one handler whose URL normalizes to a path passes the claimed-paths
\* check and goes on to the body and the write, and a handler that passed has
\* claimed the path: no second handler passes before the claim.
ClaimCheckIsAtomic ==
    \A p \in Paths :
        /\ HandlersPassed(p) <= 1
        /\ HandlersPassed(p) = 1 => Claimed(saving, p)

\* two workers render pages that each trigger an exchange for the same path
\* while the handler of one of the exchanges waits for its body
TwoContextsSamePath ==
    \E w1, w2 \in Workers, u1, u2 \in Urls :
        /\ w1 # w2
        /\ pc[w1] \in Rendering /\ pc[w2] \in Rendering
        /\ u1 \in site.responses[cur[w1]]
        /\ u2 \in site.responses[cur[w2]]
        /\ cleanURL(u1) = cleanURL(u2)
        /\ [url |-> u1, w |-> w1] \in inflight
        /\ HandlersPassed(cleanURL(u1)) = 1

\* C15: no step removes a URL from visited; a step that puts into queued a URL
\* that is in visited is the catch block of the worker that was attempting that
\* URL, never link discovery.
VisitedGrowsOnlyRetryRequeues ==
    [][/\ visited \subseteq visited'
       /\ \A u \in Range(queued') \ Range(queued) :
              u \in visited =>
                  \E w \in Workers : /\ InFlight(w)
                                     /\ cur[w] = u
                                     /\ cur'[w] # u
                                     /\ u \in failed']_vars

\* a URL that failed sits in queued though visited, while a worker that
\* extracted the links of its page, one of them visited, has left that link out
VisitedLinkLeftOut ==
    \E w \in Workers, u \in Urls :
        /\ u \in Range(queued) /\ u \in visited /\ u \in failed
        /\ pc[w] = "close"
        /\ \E l \in Range(extractLinks(site.anchors[cur[w]], cur[w])) :
               l \in visited /\ l \notin Range(queued)

\* C16: for an exchange whose URL is not prefixed by the target origin the
\* sniffer claims no path, awaits no body and writes no file: every claimed
\* path, every awaited body and every file the sniffer wrote comes from a URL
\* prefixed by the target origin.
OutOfScopeExchangeIgnored ==
    /\ \A h \in inflight : StartsWith(h.url, ROOT)
    /\ \A p \in Paths :
          (p \in saving \/ sniffWrites[p] >= 1) =>
              \E u \in Urls : StartsWith(u, ROOT) /\ cleanURL(u) = p

\* the page being rendered triggers an exchange with another origin, and every
\* in-scope exchange of that page has been stored
OffSiteExchangeSeen ==
    \E w \in Workers :
        /\ pc[w] \in Rendering
        /\ UX \in site.responses[cur[w]]
        /\ inflight = {}
        /\ \A u \in site.responses[cur[w]] \ {UX} : sniffWrites[cleanURL(u)] = 1
        /\ cleanURL(UX) \notin saving

\* C17: a failure while a worker renders, extracts from or stores a URL does
\* not end the worker: the URL is put back into queued and the worker returns
\* to the loop head, where it goes on with the next URL of queued, the failed
\* URL still waiting behind it, or leaves because it found queued drained; a
\* worker leaves the loop only when it finds queued empty.
FailureKeepsWorkerRunning ==
    [][\A w \in Workers :
          /\ Fail(w) =>
                \/ /\ pc'[w] = "newPage"
                   /\ cur'[w] \in Range(queued) \ visited
                   /\ cur[w] \in Range(queued')
                \/ /\ pc'[w] = "closeContext"
                   /\ queued' = <<>>
                   /\ Range(queued) \subseteq visited
          /\ (pc[w] # "closeContext" /\ pc'[w] = "closeContext") => queued' = <<>>
          /\ (pc[w] \in TryPcs) => pc'[w] # "done"]_vars

\* the worker that rendered the root failed at page.close() after its links
\* were enqueued, and is now on the next URL while the root waits in queued;
\* every other worker had left before
FailedWorkerCarriesOn ==
    \E w \in Workers :
        /\ pc[w] = "newPage"
        /\ \A o \in Workers \ {w} : pc[o] = "done"
        /\ xml = NoSitemap
        /\ failed = {ROOT}
        /\ rendered = {}
        /\ ROOT \in Range(queued)
        /\ cur[w] # ROOT

\* a step in which a response handler that was waiting for its body ends
\* without a write
SnifferFailureStep ==
    /\ inflight' # inflight
    /\ inflight' \subseteq inflight
    /\ sniffWrites' = sniffWrites

\* C18: a failure in the sniffer's handling of one exchange stays in that
\* handler: queued and visited are unchanged, no worker is stopped or failed,
\* and no other handler, claim or file is touched, so exchanges for other paths
\* are captured as before.
SnifferFailureContained ==
    [][SnifferFailureStep =>
          /\ queued' = queued /\ visited' = visited
          /\ pc' = pc /\ cur' = cur /\ failed' = failed
          /\ mainPc' = mainPc
          /\ saving' = saving /\ files' = files
          /\ Cardinality(inflight \ inflight') = 1]_vars

\* the run completed with no worker failure although the handler of one
\* exchange failed (its path is claimed and was never written by the sniffer),
\* and the sniffer stored another path
RunCompletedDespiteSnifferFailure ==
    /\ mainPc = "done"
    /\ failed = {}
    /\ rendered # {}
    /\ inflight = {}
    /\ \E p \in saving : sniffWrites[p] = 0
    /\ \E p \in saving : sniffWrites[p] = 1

\* C19: every URL a worker is rendering or storing is prefixed by the target
\* origin, and no document is stored for a URL that is not.
OnlyTargetSiteRendered ==
    /\ \A w \in Workers : InFlight(w) => StartsWith(cur[w], ROOT)
    /\ \A u \in Urls : ~StartsWith(u, ROOT) => workerWrites[cleanURL(u)] = 0

\* C20: when the run is complete, the file at the normalized path of every
\* page whose crawl succeeded holds the rewritten markup the worker stored.
CrawledPageHoldsRewrittenMarkup ==
    mainPc = "done" => \A u \in rendered : files[cleanURL(u)] = "html"

\* path p is claimed, no handler waits for a body for it and the sniffer has
\* not written it: the handler that claimed it failed
Abandoned(p) ==
    /\ p \in saving
    /\ sniffWrites[p] = 0
    /\ \A h \in inflight : cleanURL(h.url) # p

\* Abandoned(p) in the next state
AbandonedNext(p) ==
    /\ p \in saving'
    /\ sniffWrites'[p] = 0
    /\ \A h \in inflight' : cleanURL(h.url) # p

\* C21: a path is claimed before its body is awaited and no step releases a
\* claim; when the claiming handler fails the path stays claimed, and from then
\* on no handler passes the check for it and the sniffer never writes it.
ClaimOutlivesFailure ==
    [][/\ saving \subseteq saving'
       /\ \A h \in inflight' : cleanURL(h.url) \in saving'
       /\ \A h \in inflight \ inflight' :
              sniffWrites' = sniffWrites => AbandonedNext(cleanURL(h.url))
       /\ \A p \in Paths : Abandoned(p) => AbandonedNext(p)]_vars

\* the handler that claimed a path failed, and a page being rendered now
\* triggers an exchange for that path
ExchangeForAbandonedPath ==
    \E w \in Workers, u \in Urls :
        /\ pc[w] \in Rendering
        /\ u \in site.responses[cur[w]]
        /\ StartsWith(u, ROOT)
        /\ Abandoned(cleanURL(u))
        /\ inflight = {}
        /\ rendered # {}

\* URLs the step puts into queued
Enqueued == Range(queued') \ Range(queued)

\* C22: a worker stores the document of a page before it enqueues the page's
\* links: once the workers run, URLs enter queued only in the step that
\* follows extractLinks, taken after the document was stored, or in a catch
\* block; and when storing the document or extracting the links fails, the
\* catch block puts back the page's URL and none of the page's links.
StoreThenLinksOrNone ==
    [][(mainPc = "wait") =>
          /\ Enqueued # {} =>
                \E w \in Workers :
                    \/ /\ pc[w] = "extract" /\ pc'[w] = "close"
                       /\ workerWrites[cleanURL(cur[w])] >= 1
                       /\ Enqueued \subseteq
                              Range(extractLinks(site.anchors[cur[w]], cur[w]))
                    \/ Fail(w)
          /\ \A w \in Workers :
                Fail(w) => Enqueued \subseteq {cur[w]}]_vars

\* the document of the root was stored and extractLinks then failed: the root
\* is back in queued behind a sitemap entry and its links, which no sitemap
\* entry names, are neither in queued nor visited
LinksSkippedAfterFailure ==
    /\ failed = {ROOT}
    /\ rendered = {}
    /\ workerWrites[cleanURL(ROOT)] = 1
    /\ ROOT \in Range(queued)
    /\ \E l \in Range(extractLinks(site.anchors[ROOT], ROOT)) :
           l \notin Range(queued) /\ l \notin visited /\ l \notin Range(xml)

=============================================================================
